---- MODULE Spec2Model ----
(***************************************************************************)
(* Cycle detection and time-memory tradeoff over a PRF oracle (hw5):       *)
(*   floyd.py           find_collision and its retry driver                *)
(*   nivasch.py         find_cycle with k stacks                           *)
(*   hellman_tables.py  ModifiedPRF, hellman_preprocess, hellman_online    *)
(* The oracle (prf.PRF) is a black box: a deterministic function chosen    *)
(* arbitrarily in the initial state.                                       *)
(***************************************************************************)
EXTENDS Integers, Sequences, FiniteSets, TLC

\* ------------------------------------------------------------------ bounds
\* size of the working set of the self-map handed to Floyd and Nivasch
MaxN == 4
\* largest number of Nivasch stacks
MaxK == 3
\* largest oracle domain / range cardinality in the Hellman model
MaxSize == 3
\* m: chains per Hellman table
NumChains == 2
\* t: chain length and number of Hellman tables
ChainLen == 2

\* hellman_online's "not found"
None == -1

VARIABLES
    f,        \* the oracle: argument |-> f.calc(argument)
    start,    \* floyd.py / nivasch.py: start
    \* ---- floyd.py
    p1, p2, count,
    ck,       \* iterations done of "for _ in range(count * 2)"
    x_0, x_1, \* what find_collision returned to main
    fpc,      \* position in find_collision / main
    \* ---- nivasch.py
    k, stacks,
    next,
    visited,  \* the points find_cycle has seen: start and every f.calc result
    x,        \* what find_cycle returned
    npc,
    \* ---- hellman_tables.py
    domain, rang,   \* f.domain, f.rang
    tables,         \* hellman_preprocess: tables
    table,          \* hellman_preprocess: the table being filled
    ti,             \* hellman_preprocess: i
    made,           \* chains already recorded in table
    hpc,
    ty, res,        \* run_hellman: the last y and hellman_online's answer
    answers,        \* run_hellman: every answer hellman_online gave, per y
    again           \* the last y had been looked up before

fvars == <<p1, p2, count, ck, x_0, x_1, fpc>>
nvars == <<k, stacks, next, visited, x, npc>>
hvars == <<domain, rang, tables, table, ti, made, hpc, ty, res, answers, again>>
vars == <<f, start, fvars, nvars, hvars>>

\* the working set of the block-sized PRF used by floyd.py and nivasch.py
Points == 0 .. (MaxN - 1)

FloydIdle ==
    /\ p1 = 0 /\ p2 = 0 /\ count = 0 /\ ck = 0
    /\ x_0 = 0 /\ x_1 = 0 /\ fpc = "idle"

NivaschIdle ==
    /\ k = 1 /\ stacks = <<>> /\ next = 0 /\ visited = {} /\ x = 0
    /\ npc = "idle"

HellmanIdle ==
    /\ domain = 1 /\ rang = 1 /\ tables = <<>> /\ table = <<>>
    /\ ti = 0 /\ made = 0 /\ hpc = "idle" /\ ty = 0 /\ res = None
    /\ answers = <<>> /\ again = FALSE

\* ================================================================ floyd.py

\* "if f.calc(start) == start: return start, start"
FloydLucky ==
    /\ fpc = "call"
    /\ f[start] = start
    /\ x_0' = start /\ x_1' = start
    /\ fpc' = "returned"
    /\ UNCHANGED <<f, start, p1, p2, count, ck, nvars, hvars>>

\* p1 = f(start); p2 = f(f(start)); count = 0
FloydBegin ==
    /\ fpc = "call"
    /\ f[start] # start
    /\ p1' = f[start]
    /\ p2' = f[f[start]]
    /\ count' = 0
    /\ fpc' = "race"
    /\ UNCHANGED <<f, start, ck, x_0, x_1, nvars, hvars>>

\* one round of "while p1 != p2"
FloydRace ==
    /\ fpc = "race"
    /\ p1 # p2
    /\ count' = count + 1
    /\ p1' = f[p1]
    /\ p2' = f[f[p2]]
    /\ UNCHANGED <<f, start, ck, x_0, x_1, fpc, nvars, hvars>>

\* the pointers met: enter "for _ in range(count * 2)"
FloydMeet ==
    /\ fpc = "race"
    /\ p1 = p2
    /\ ck' = 0
    /\ fpc' = "check"
    /\ UNCHANGED <<f, start, p1, p2, count, x_0, x_1, nvars, hvars>>

CheckLen(c) == c * 2

\* faulty variant: compares with the meeting point instead of start
CheckHitMeet(p) == p = p2

\* "if p1 == start"
CheckHit(p) == p = start

\* one iteration of the check loop that does not see start
FloydCheckStep ==
    /\ fpc = "check"
    /\ ck < CheckLen(count)
    /\ ~CheckHit(f[p1])
    /\ p1' = f[p1]
    /\ ck' = ck + 1
    /\ UNCHANGED <<f, start, p2, count, x_0, x_1, fpc, nvars, hvars>>

\* the check loop walks onto start: print("Failed"); return start, start
FloydCheckFail ==
    /\ fpc = "check"
    /\ ck < CheckLen(count)
    /\ CheckHit(f[p1])
    /\ p1' = f[p1]
    /\ x_0' = start /\ x_1' = start
    /\ fpc' = "returned"
    /\ UNCHANGED <<f, start, p2, count, ck, nvars, hvars>>

\* the check loop is exhausted: p1 = start
FloydCheckDone ==
    /\ fpc = "check"
    /\ ck = CheckLen(count)
    /\ p1' = start
    /\ fpc' = "find"
    /\ UNCHANGED <<f, start, p2, count, ck, x_0, x_1, nvars, hvars>>

\* faulty variant: stops when the pointers themselves coincide
FindDoneEntry(a, b) == a = b

\* the exit test of "while f.calc(p1) != f.calc(p2)"
FindDone(a, b) == f[a] = f[b]

FloydFindStep ==
    /\ fpc = "find"
    /\ ~FindDone(p1, p2)
    /\ p1' = f[p1]
    /\ p2' = f[p2]
    /\ UNCHANGED <<f, start, count, ck, x_0, x_1, fpc, nvars, hvars>>

\* return p1, p2
FloydFindReturn ==
    /\ fpc = "find"
    /\ FindDone(p1, p2)
    /\ x_0' = p1 /\ x_1' = p2
    /\ fpc' = "returned"
    /\ UNCHANGED <<f, start, p1, p2, count, ck, nvars, hvars>>

\* main: "if x_0 != x_1 and f.calc(x_0) == f.calc(x_1): ... break"
MainSuccess ==
    /\ fpc = "returned"
    /\ x_0 # x_1 /\ f[x_0] = f[x_1]
    /\ fpc' = "success"
    /\ UNCHANGED <<f, start, p1, p2, count, ck, x_0, x_1, nvars, hvars>>

\* main: "else: ... start += 1" and the next find_collision call
MainRetry ==
    /\ fpc = "returned"
    /\ ~(x_0 # x_1 /\ f[x_0] = f[x_1])
    /\ start + 1 \in Points
    /\ start' = start + 1
    /\ fpc' = "call"
    /\ UNCHANGED <<f, p1, p2, count, ck, x_0, x_1, nvars, hvars>>

FloydInit ==
    /\ f \in [Points -> Points]
    /\ start \in Points
    /\ p1 = 0 /\ p2 = 0 /\ count = 0 /\ ck = 0 /\ x_0 = 0 /\ x_1 = 0
    /\ fpc = "call"
    /\ NivaschIdle /\ HellmanIdle

FloydNext ==
    \/ FloydLucky
    \/ FloydBegin
    \/ FloydRace
    \/ FloydMeet
    \/ FloydCheckStep
    \/ FloydCheckFail
    \/ FloydCheckDone
    \/ FloydFindStep
    \/ FloydFindReturn
    \/ MainSuccess
    \/ MainRetry

SpecFloyd == FloydInit /\ [][FloydNext]_vars

\* ============================================================== nivasch.py

\* "stacks[next % k]": the stack a point is routed to (stacks are 0-based)
StackOf(v) == v % k

\* faulty variant: any entry not below v counts as a repeat
ContainsLoose(s, v) == \E n \in 1 .. Len(s) : s[n] >= v

\* "next in stacks[next % k]"
Contains(s, v) == \E n \in 1 .. Len(s) : s[n] = v

\* faulty variant: the popping loop is skipped
PopNone(s, v) == s

\* faulty variant: the popping loop empties the stack
PopAll(s, v) == <<>>

RECURSIVE PopGreater(_, _)
\* "while stacks[next % k][-1] > next: pop(); if len(...) == 0: break"
PopGreater(s, v) ==
    IF s = <<>> THEN s
    ELSE IF s[Len(s)] > v THEN PopGreater(SubSeq(s, 1, Len(s) - 1), v)
    ELSE s

\* next = f.calc(next); "if next in stacks[next % k]: return next"
NivaschReturn ==
    /\ npc = "loop"
    /\ Contains(stacks[StackOf(f[next])], f[next])
    /\ next' = f[next]
    /\ visited' = visited \cup {f[next]}
    /\ x' = f[next]
    /\ npc' = "returned"
    /\ UNCHANGED <<f, start, k, stacks, fvars, hvars>>

\* "if len(stacks[next % k]) == 0: append(next); continue"
NivaschPushEmpty ==
    /\ npc = "loop"
    /\ ~Contains(stacks[StackOf(f[next])], f[next])
    /\ stacks[StackOf(f[next])] = <<>>
    /\ next' = f[next]
    /\ visited' = visited \cup {f[next]}
    /\ stacks' = [stacks EXCEPT ![StackOf(f[next])] = <<f[next]>>]
    /\ UNCHANGED <<f, start, k, x, npc, fvars, hvars>>

\* the popping loop, then "stacks[next % k].append(next)"
NivaschPopPush ==
    /\ npc = "loop"
    /\ ~Contains(stacks[StackOf(f[next])], f[next])
    /\ stacks[StackOf(f[next])] # <<>>
    /\ next' = f[next]
    /\ visited' = visited \cup {f[next]}
    /\ stacks' = [stacks EXCEPT ![StackOf(f[next])] =
                      Append(PopGreater(@, f[next]), f[next])]
    /\ UNCHANGED <<f, start, k, x, npc, fvars, hvars>>

\* find_cycle's prologue: k empty stacks, start pushed, next = start
NivaschInit ==
    /\ f \in [Points -> Points]
    /\ start \in Points
    /\ k \in 1 .. MaxK
    /\ stacks = [j \in 0 .. (k - 1) |->
                    IF j = start % k THEN <<start>> ELSE <<>>]
    /\ next = start
    /\ visited = {start}
    /\ x = 0
    /\ npc = "loop"
    /\ FloydIdle /\ HellmanIdle

NivaschNext ==
    \/ NivaschReturn
    \/ NivaschPushEmpty
    \/ NivaschPopPush

\* find_cycle is sequential code: its loop keeps running until it returns
SpecNivasch == NivaschInit /\ [][NivaschNext]_vars /\ WF_vars(NivaschNext)

\* ======================================================= hellman_tables.py

\* the (domain, range) cardinalities the oracle may publish; ModifiedPRF.calc
\* assumes domain <= range^2 and range <= domain^2
Regimes ==
    {dr \in (1 .. MaxSize) \X (1 .. MaxSize) :
        dr[1] <= dr[2] * dr[2] /\ dr[2] <= dr[1] * dr[1]}

\* the arguments ModifiedPRF.calc hands to the oracle for inputs 0 .. d-1
OracleArgs(d, r) ==
    IF d > r THEN {v + ((v + 1) % d) * r : v \in 0 .. (d - 1)}
    ELSE 0 .. (d - 1)

\* ModifiedPRF.calc
calc(v) ==
    IF domain < rang THEN f[v % domain]
    ELSE IF domain > rang THEN f[v + ((v + 1) % domain) * rang]
    ELSE f[v]

\* ModifiedPRF.recover_x
recover_x(v) ==
    IF domain < rang THEN v % domain
    ELSE IF domain > rang THEN v + ((v + 1) % domain) * rang
    ELSE v

\* the perturbed step of table i: f_tag.calc((curr + i) % f_tag.f.domain)
Step(i, v) == calc((v + i) % domain)

RECURSIVE Chain(_, _, _)
\* "for _ in range(t): next = ...; curr = next", n rounds from v
Chain(i, v, n) == IF n = 0 THEN v ELSE Chain(i, Step(i, v), n - 1)

\* faulty variant: "table[curr] = [start]", a colliding endpoint overwritten
TableOverwrite(tb, e, s) ==
    IF e \in DOMAIN tb THEN [tb EXCEPT ![e] = <<s>>] ELSE tb @@ (e :> <<s>>)

\* "table[curr].append(start)" on a defaultdict(list)
TableAppend(tb, e, s) ==
    IF e \in DOMAIN tb THEN [tb EXCEPT ![e] = Append(@, s)]
    ELSE tb @@ (e :> <<s>>)

\* the value of "tables[i][curr]": the list under the key, [] for a new key
Lookup(tb, e) == IF e \in DOMAIN tb THEN tb[e] ELSE <<>>

\* faulty variant: the lookup leaves an empty list under the key
TouchClear(tb, e) == (e :> <<>>) @@ tb

\* the effect of "tables[i][curr]" on a defaultdict: a missing key is inserted
\* with an empty list
Touch(tb, e) == IF e \in DOMAIN tb THEN tb ELSE tb @@ (e :> <<>>)

\* len(tables)
NumTables(tbls) == Cardinality(DOMAIN tbls)

\* faulty variant: "return a", the table's offset forgotten
ReplayHitBare(i, a) == a

\* "return (a+i)%f_tag.f.domain"
ReplayHit(i, a) == (a + i) % domain

\* faulty variant: one probe fewer
OnlineProbesShort == ChainLen - 1

\* hellman_online: the outer "for _ in range(t)"
OnlineProbes == ChainLen

\* hellman_online: the inner "for _ in range(t)"
ReplaySteps == ChainLen

RECURSIVE Replay(_, _, _, _)
\* the inner loop over one candidate start a, n rounds left
Replay(i, a, n, y) ==
    IF n = 0 THEN None
    ELSE IF Step(i, a) = y THEN ReplayHit(i, a)
    ELSE Replay(i, Step(i, a), n - 1, y)

RECURSIVE Candidates(_, _, _, _)
\* "for a in tables[i][curr]", from position n of the list
Candidates(i, cands, n, y) ==
    IF n > Len(cands) THEN None
    ELSE LET r == Replay(i, cands[n], ReplaySteps, y)
         IN  IF r # None THEN r ELSE Candidates(i, cands, n + 1, y)

RECURSIVE Probe(_, _, _, _, _)
\* hellman_online from table i with n probes left at curr: the answer and the
\* tables as the lookups leave them
Probe(tbls, i, n, curr, y) ==
    IF i >= NumTables(tbls) THEN [res |-> None, tables |-> tbls]
    ELSE IF n = 0 THEN Probe(tbls, i + 1, OnlineProbes, y, y)
    ELSE LET cands == Lookup(tbls[i], curr)
             tbls1 == [tbls EXCEPT ![i] = Touch(@, curr)]
             r == Candidates(i, cands, 1, y)
         IN  IF r # None THEN [res |-> r, tables |-> tbls1]
             ELSE Probe(tbls1, i, n - 1, Step(i, curr), y)

hellman_online(tbls, y) == Probe(tbls, 0, OnlineProbes, y, y)

\* one chain of hellman_preprocess: a random start, t steps, the endpoint
\* recorded
PreprocessChain ==
    /\ hpc = "preprocess"
    /\ ti < ChainLen
    /\ made < NumChains
    /\ \E s \in 0 .. (domain - 1) :
           table' = TableAppend(table, Chain(ti, s, ChainLen), s)
    /\ made' = made + 1
    /\ UNCHANGED <<f, start, domain, rang, tables, ti, hpc, ty, res, answers,
                   again, fvars, nvars>>

\* "tables.append(table)" and the next i
PreprocessTable ==
    /\ hpc = "preprocess"
    /\ ti < ChainLen
    /\ made = NumChains
    /\ tables' = tables @@ (ti :> table)
    /\ table' = <<>>
    /\ made' = 0
    /\ ti' = ti + 1
    /\ UNCHANGED <<f, start, domain, rang, hpc, ty, res, answers, again,
                   fvars, nvars>>

\* "return tables"; run_hellman goes on to its lookups
PreprocessReturn ==
    /\ hpc = "preprocess"
    /\ ti = ChainLen
    /\ hpc' = "online"
    /\ UNCHANGED <<f, start, domain, rang, tables, table, ti, made, ty, res,
                   answers, again, fvars, nvars>>

\* one hellman_online call, for any y of the oracle's range, that finds a
\* preimage
OnlineFound ==
    /\ hpc = "online"
    /\ \E y \in 0 .. (rang - 1) :
           LET o == hellman_online(tables, y)
           IN  /\ o.res # None
               /\ tables' = o.tables
               /\ ty' = y
               /\ res' = o.res
               /\ again' = (answers[y] # {})
               /\ answers' = [answers EXCEPT ![y] = @ \cup {o.res}]
    /\ UNCHANGED <<f, start, domain, rang, table, ti, made, hpc, fvars, nvars>>

\* one hellman_online call that returns None
OnlineNotFound ==
    /\ hpc = "online"
    /\ \E y \in 0 .. (rang - 1) :
           LET o == hellman_online(tables, y)
           IN  /\ o.res = None
               /\ tables' = o.tables
               /\ ty' = y
               /\ res' = o.res
               /\ again' = (answers[y] # {})
               /\ answers' = [answers EXCEPT ![y] = @ \cup {o.res}]
    /\ UNCHANGED <<f, start, domain, rang, table, ti, made, hpc, fvars, nvars>>

\* run_hellman: the adapter around an oracle, no table built yet
HellmanInit ==
    /\ \E dr \in Regimes : domain = dr[1] /\ rang = dr[2]
    /\ f \in [OracleArgs(domain, rang) -> 0 .. (rang - 1)]
    /\ start = 0
    /\ tables = <<>> /\ table = <<>> /\ ti = 0 /\ made = 0
    /\ hpc = "preprocess"
    /\ ty = 0 /\ res = None
    /\ answers = [y \in 0 .. (rang - 1) |-> {}]
    /\ again = FALSE
    /\ FloydIdle /\ NivaschIdle

HellmanNext ==
    \/ PreprocessChain
    \/ PreprocessTable
    \/ PreprocessReturn
    \/ OnlineFound
    \/ OnlineNotFound

SpecHellman == HellmanInit /\ [][HellmanNext]_vars

\* ------------------------------------------------- claims about floyd.py

RECURSIVE Iter(_, _)
\* f applied n times to s
Iter(n, s) == IF n = 0 THEN s ELSE f[Iter(n - 1, s)]

\* s is on the cycle its own iteration sequence runs into
OnCycle(s) == \E n \in 1 .. MaxN : Iter(n, s) = s

\* C1: when start is not on the cycle reached from it, find_collision returns
\* x_0 # x_1 with f(x_0) = f(x_1).
C1_CollisionOffCycle ==
    (fpc = "returned" /\ ~OnCycle(start)) => (x_0 # x_1 /\ f[x_0] = f[x_1])

\* find_collision returned from a start two or more steps away from the cycle
C1_Witness ==
    /\ fpc = "returned"
    /\ ~OnCycle(start) /\ ~OnCycle(f[start])
    /\ x_0 # x_1

\* C2: find_collision returns the degenerate pair (start, start) exactly when
\* start is on the cycle of its own iteration sequence.
C2_DegenerateIffOnCycle ==
    fpc = "returned" => ((x_0 = start /\ x_1 = start) <=> OnCycle(start))

\* the degenerate pair came out of the check loop, on a cycle longer than one
C2_Witness ==
    /\ fpc = "returned"
    /\ OnCycle(start) /\ f[start] # start
    /\ x_0 = start /\ x_1 = start
    /\ count > 0

\* ----------------------------------------------- claims about nivasch.py

RECURSIVE Held(_)
\* number of entries held by stacks 0 .. j
Held(j) == IF j < 0 THEN 0 ELSE Len(stacks[j]) + Held(j - 1)

\* C3: the value find_cycle returns is on the eventual cycle of start's
\* sequence: two distinct iteration indices produce it.
C3_ReturnedOnCycle ==
    npc = "returned" =>
        \E a, b \in 0 .. (2 * MaxN) :
            a # b /\ Iter(a, start) = x /\ Iter(b, start) = x

\* find_cycle returned a point other than start after walking a tail
C3_Witness ==
    /\ npc = "returned"
    /\ ~OnCycle(start)
    /\ x # start

\* C4: find_cycle eventually returns.
C4_Terminates == <>(npc = "returned")

\* find_cycle returned although entries had been popped on the way
C4_Witness ==
    /\ npc = "returned"
    /\ Held(k - 1) < Cardinality(visited)
    /\ Cardinality(visited) > 2

\* C9 as stated: every stack holds visited points of its residue class and is
\* strictly decreasing from bottom to top.
C9_StacksDecreasing ==
    npc = "loop" =>
        \A j \in 0 .. (k - 1) :
            /\ \A n \in 1 .. Len(stacks[j]) :
                   stacks[j][n] \in visited /\ stacks[j][n] % k = j
            /\ \A a, b \in 1 .. Len(stacks[j]) :
                   a < b => stacks[j][a] > stacks[j][b]

\* C9 amended: every stack holds visited points of its residue class and is
\* strictly increasing from bottom to top.
C9_StacksIncreasing ==
    npc = "loop" =>
        \A j \in 0 .. (k - 1) :
            /\ \A n \in 1 .. Len(stacks[j]) :
                   stacks[j][n] \in visited /\ stacks[j][n] % k = j
            /\ \A a, b \in 1 .. Len(stacks[j]) :
                   a < b => stacks[j][a] < stacks[j][b]

\* a stack of two or more entries that survived a pop
C9_Witness ==
    /\ npc = "loop"
    /\ \E j \in 0 .. (k - 1) : Len(stacks[j]) >= 2
    /\ Held(k - 1) < Cardinality(visited)

\* ---------------------------------------- claims about hellman_tables.py

RECURSIVE RefIter(_, _, _)
\* the value at position n of the chain of start s under perturbation i
RefIter(i, n, s) ==
    IF n = 0 THEN s ELSE calc((RefIter(i, n - 1, s) + i) % domain)

RECURSIVE StartsUpTo(_, _)
\* number of starts listed in table tb under the keys 0 .. e
StartsUpTo(tb, e) ==
    IF e < 0 THEN 0
    ELSE (IF e \in DOMAIN tb THEN Len(tb[e]) ELSE 0) + StartsUpTo(tb, e - 1)

\* hellman_online has been called for ty and answered res
Answered == hpc = "online" /\ answers[ty] # {}

\* y is the value at position j of the chain of the n-th start under key e of
\* table i
OnChain(i, e, n, j, y) == RefIter(i, j, tables[i][e][n]) = y

\* the positions at which some recorded chain holds y
Covering(y) ==
    {p \in (0 .. (ChainLen - 1)) \X (0 .. (rang - 1)) \X (1 .. NumChains)
            \X (1 .. ChainLen) :
        /\ p[2] \in DOMAIN tables[p[1]]
        /\ p[3] <= Len(tables[p[1]][p[2]])
        /\ OnChain(p[1], p[2], p[3], p[4], y)}

\* C5: a value hellman_online returns is a preimage of y under f_tag.calc, and
\* recover_x maps it to a preimage under the oracle itself.
C5_ReturnedIsPreimage ==
    (Answered /\ res # None) => (calc(res) = ty /\ f[recover_x(res)] = ty)

\* a preimage was returned where the oracle's domain exceeds its range
C5_Witness ==
    /\ Answered /\ res # None
    /\ domain > rang
    /\ recover_x(res) # res

\* C6: no hellman_online call changes the tables.
C6_TablesReadOnly == [][hpc = "online" => tables' = tables]_vars

\* C7: all hellman_online calls made for one target on the same built tables
\* return the same answer, whatever other targets are looked up in between.
C7_SameAnswerEveryTime ==
    hpc = "online" => \A y \in 0 .. (rang - 1) : Cardinality(answers[y]) <= 1

\* a target looked up again after a lookup of another target, with a preimage
C7_Witness ==
    /\ Answered /\ again
    /\ res # None
    /\ \E y \in 0 .. (rang - 1) : y # ty /\ answers[y] # {}

\* C8: hellman_preprocess returns t tables; in table i every start listed
\* under e reaches e after exactly t perturbed steps, and the lists hold m
\* starts in total.
C8_TablesBuilt ==
    hpc = "online" =>
        /\ DOMAIN tables = 0 .. (ChainLen - 1)
        /\ \A i \in DOMAIN tables :
            /\ \A e \in DOMAIN tables[i] :
                   \A n \in 1 .. Len(tables[i][e]) :
                       e = RefIter(i, ChainLen, tables[i][e][n])
            /\ StartsUpTo(tables[i], rang - 1) = NumChains

\* two different starts of one table share an endpoint and both are listed
C8_Witness ==
    /\ hpc = "online"
    /\ \E i \in DOMAIN tables : \E e \in DOMAIN tables[i] :
           /\ Len(tables[i][e]) >= 2
           /\ tables[i][e][1] # tables[i][e][2]

\* C10: a target that is the output of some step of a recorded chain is found.
C10_CoveredIsFound ==
    (Answered /\ Covering(ty) # {}) => res # None

\* the target is found although it is covered only as the first output of
\* chains of the last table
C10_Witness ==
    /\ Answered /\ res # None
    /\ Covering(ty) # {}
    /\ \A p \in Covering(ty) : p[4] = 1 /\ p[1] = ChainLen - 1

====
